---------------------------- MODULE Spec2Model ----------------------------
(***************************************************************************)
(* Model of the MAVLink monitor daemon (src/daemon/mavlink_daemon.py).     *)
(*                                                                         *)
(* Three execution contexts share one MAVLinkDaemon object:                *)
(*   - the main thread, which executes run(): setup, the receive loop,     *)
(*     shutdown(); the signal handler interrupts it between bytecodes;     *)
(*   - the paho network thread, which flips is_connected();                *)
(*   - the asyncio event loop thread, which serves the WebSocket clients   *)
(*     (ws_handler) and runs the broadcasts scheduled by the main thread.  *)
(*                                                                         *)
(* Voltages are floats in the program; here a finite float is the integer  *)
(* number of tenths of a volt, and NaN is kept as a separate value,        *)
(* because every comparison with NaN is false.                             *)
(***************************************************************************)
EXTENDS Integers, Sequences, FiniteSets, TLC

\* Bounds of the model
MaxDatagrams == 2
MaxSubscribers == 2

\* Program constants (tenths of a volt)
BATTERY_CRITICAL_VOLTAGE == 210
RECOVERY_MARGIN == 5

Subscribers == 1..MaxSubscribers

VARIABLES
    pc,              \* position of the main thread in __main__ / run() / shutdown()
    running,         \* self.running
    mqtt_client,     \* self.mqtt_client: "None", "created", "started", "stopped"
    connected,       \* mqtt_client.is_connected()
    mavlink_socket,  \* self.mavlink_socket: "None", "unbound", "bound", "closed"
    ws_server,       \* the event loop thread: "off", "starting", "serving", "failed"
    data,            \* the datagram returned by recvfrom, not yet processed
    nrecv,           \* number of datagrams received so far
    now,             \* logical clock behind datetime.utcnow()
    last_telemetry,  \* self.last_telemetry
    alert_sent,      \* self.alert_sent
    mqtt_out,        \* messages handed to mqtt_client.publish, in order
    err,             \* the exception being handled by the loop's except clauses
    wsQueue,         \* broadcast_ws coroutines scheduled on the loop, not yet started
    ws_clients,      \* self.ws_clients
    conn,            \* per subscriber connection: "new", "open", "closed"
    sends,           \* client.send tasks created by broadcast_ws
    exit_status      \* exit status of the process: "alive", "0", "1"

vars == << pc, running, mqtt_client, connected, mavlink_socket, ws_server, data,
           nrecv, now, last_telemetry, alert_sent, mqtt_out, err, wsQueue,
           ws_clients, conn, sends, exit_status >>

-----------------------------------------------------------------------------
(* Floats *)

F(x) == [nan |-> FALSE, x |-> x]
NaN  == [nan |-> TRUE, x |-> 0]
FLt(a, b) == ~a.nan /\ ~b.nan /\ a.x < b.x
FGe(a, b) == ~a.nan /\ ~b.nan /\ a.x >= b.x
FAdd(a, b) == IF a.nan \/ b.nan THEN NaN ELSE F(a.x + b.x)

-----------------------------------------------------------------------------
(* Inbound datagrams *)

\* A JSON value found under a key of the received object.
Absent    == [t |-> "absent", v |-> 0]
Num(x)    == [t |-> "num", v |-> x]
NumStr(x) == [t |-> "str", v |-> x]      \* a string such as "20.5"
BadStr    == [t |-> "badstr", v |-> 0]   \* a string such as "not-a-number"
Null      == [t |-> "null", v |-> 0]
JsonNaN   == [t |-> "nan", v |-> 0]      \* the literal NaN, which json.loads accepts

Obj(alt, spd, bat) ==
    [kind |-> "object", altitude |-> alt, airspeed |-> spd, battery_voltage |-> bat]
NotObj(k) ==
    [kind |-> k, altitude |-> Absent, airspeed |-> Absent, battery_voltage |-> Absent]

\* Battery voltages the producer reports: below the threshold, exactly at it
\* (inside the dead band), and exactly at the recovery level.
Volts == {205, 210, 215}

GoodDatagrams ==
    {Obj(Num(100), Num(15), Num(v)) : v \in Volts}
    \cup {Obj(Absent, NumStr(15), Absent), Obj(Num(100), Num(15), JsonNaN)}

MalformedDatagrams ==
    {NotObj("badutf8"), NotObj("badjson"), NotObj("nonobject"),
     Obj(BadStr, Num(15), Num(205)), Obj(Num(100), Null, Num(205)),
     Obj(Num(100), Num(15), BadStr), Obj(Num(100), Num(15), Null)}

Datagrams == GoodDatagrams \cup MalformedDatagrams

NoData == NotObj("none")

\* float(data.get(key, 0.0))
ToFloat(raw) ==
    CASE raw.t = "absent" -> [exc |-> "none", val |-> F(0)]
      [] raw.t = "num"    -> [exc |-> "none", val |-> F(raw.v)]
      [] raw.t = "str"    -> [exc |-> "none", val |-> F(raw.v)]
      [] raw.t = "nan"    -> [exc |-> "none", val |-> NaN]
      [] raw.t = "badstr" -> [exc |-> "ValueError", val |-> NaN]
      [] raw.t = "null"   -> [exc |-> "TypeError", val |-> NaN]

\* The three conversions at the head of process_telemetry, in program order:
\* the first one that raises decides the exception.
Normalize(d) ==
    LET a == ToFloat(d.altitude)
        s == ToFloat(d.airspeed)
        b == ToFloat(d.battery_voltage)
        exc == IF a.exc # "none" THEN a.exc
               ELSE IF s.exc # "none" THEN s.exc ELSE b.exc
    IN  [exc |-> exc, altitude |-> a.val, airspeed |-> s.val, battery_voltage |-> b.val]

Sample(n, ts) ==
    [altitude |-> n.altitude, airspeed |-> n.airspeed,
     battery_voltage |-> n.battery_voltage, timestamp |-> ts]

InitialTelemetry ==
    [altitude |-> F(0), airspeed |-> F(0), battery_voltage |-> F(0), timestamp |-> 0]

-----------------------------------------------------------------------------
(* Broker sink *)

MQTT_TOPIC_TELEMETRY == "mavlink/telemetry"
MQTT_TOPIC_ALERT == "mavlink/alert"

TelemetryMsg(sample) ==
    [topic |-> MQTT_TOPIC_TELEMETRY, payload |-> sample, qos |-> 1, retain |-> FALSE]

AlertMsg(v, ts) ==
    [topic |-> MQTT_TOPIC_ALERT,
     payload |-> [type |-> "CRITICAL_ALERT", priority |-> "HIGH",
                  threshold |-> F(BATTERY_CRITICAL_VOLTAGE), current_voltage |-> v,
                  timestamp |-> ts,
                  action_required |-> "IMMEDIATE_LANDING_RECOMMENDED"],
     qos |-> 2, retain |-> TRUE]

\* What a call of mqtt_client.publish can do: return, or raise.  A ValueError
\* is caught inside process_telemetry, anything else in run().
PublishOutcomes == {"ok", "ValueError", "RuntimeError"}

\* publish_telemetry: `out` is mqtt_out, c is is_connected() at the call,
\* o the outcome of publish.
publish_telemetry(sample, out, c, o) ==
    IF c
    THEN IF o = "ok"
         THEN [exc |-> "none", out |-> Append(out, TelemetryMsg(sample))]
         ELSE [exc |-> o, out |-> out]
    ELSE [exc |-> "none", out |-> out]

-----------------------------------------------------------------------------
(* Failsafe *)

\* check_failsafe: v the battery voltage, latch is alert_sent, ts the time read
\* for the alert, c and o as in publish_telemetry.
check_failsafe(v, latch, out, c, o, ts) ==
    IF FLt(v, F(BATTERY_CRITICAL_VOLTAGE))
    THEN IF c /\ o # "ok"
         THEN [exc |-> o, alert_sent |-> latch, out |-> out]
         ELSE [exc |-> "none", alert_sent |-> TRUE,
               out |-> IF c THEN Append(out, AlertMsg(v, ts)) ELSE out]
    ELSE [exc |-> "none",
          alert_sent |-> IF latch /\ FGe(v, FAdd(F(BATTERY_CRITICAL_VOLTAGE), F(RECOVERY_MARGIN)))
                         THEN FALSE ELSE latch,
          out |-> out]

-----------------------------------------------------------------------------
(* process_telemetry *)

\* The daemon fields process_telemetry reads and writes.
Fields ==
    [last_telemetry |-> last_telemetry, alert_sent |-> alert_sent,
     mqtt_out |-> mqtt_out, wsQueue |-> wsQueue, now |-> now]

FieldsOf(r) ==
    [last_telemetry |-> r.last_telemetry, alert_sent |-> r.alert_sent,
     mqtt_out |-> r.mqtt_out, wsQueue |-> r.wsQueue, now |-> r.now]

Raised(st, at, exc) ==
    [last_telemetry |-> st.last_telemetry, alert_sent |-> st.alert_sent,
     mqtt_out |-> st.mqtt_out, wsQueue |-> st.wsQueue, now |-> st.now,
     at |-> at, exc |-> exc]

\* A process_telemetry that replaces the snapshot only once the telemetry
\* publish has returned: a publish that raises leaves the previous snapshot.
accept_sample_store_after_publish(n, st, c1, o1, c2, o2) ==
    LET ts == st.now + 1
        sample == Sample(n, ts)
        p == publish_telemetry(sample, st.mqtt_out, c1, o1)
    IN
    IF p.exc # "none" THEN Raised(st, "publish_telemetry", p.exc)
    ELSE
    LET st2 == [st EXCEPT !.last_telemetry = sample, !.now = ts, !.mqtt_out = p.out]
        f == check_failsafe(n.battery_voltage, st2.alert_sent, st2.mqtt_out, c2, o2, ts)
    IN
    IF f.exc # "none" THEN Raised(st2, "check_failsafe", f.exc)
    ELSE Raised([st2 EXCEPT !.alert_sent = f.alert_sent, !.mqtt_out = f.out,
                            !.wsQueue = Append(st2.wsQueue, sample)],
                "none", "none")

\* process_telemetry from line 123 on, for the converted values n: replace the
\* snapshot, publish, evaluate the failsafe, schedule the broadcast.  c1/o1:
\* is_connected() and the outcome of publish in publish_telemetry; c2/o2: the
\* same in check_failsafe.  The result carries the exception that ended the
\* call and where it was raised ("none" when the call ran to its end).
accept_sample(n, st, c1, o1, c2, o2) ==
    LET ts == st.now + 1
        sample == Sample(n, ts)
        st1 == [st EXCEPT !.last_telemetry = sample, !.now = ts]
        p == publish_telemetry(sample, st1.mqtt_out, c1, o1)
    IN
    IF p.exc # "none" THEN Raised(st1, "publish_telemetry", p.exc)
    ELSE
    LET st2 == [st1 EXCEPT !.mqtt_out = p.out]
        f == check_failsafe(n.battery_voltage, st2.alert_sent, st2.mqtt_out, c2, o2, ts)
    IN
    IF f.exc # "none" THEN Raised(st2, "check_failsafe", f.exc)
    ELSE
    LET st3 == [st2 EXCEPT !.alert_sent = f.alert_sent, !.mqtt_out = f.out,
                           !.wsQueue = Append(st2.wsQueue, sample)]
    IN  Raised(st3, "none", "none")

\* A process_telemetry that stores each field as soon as it is converted: the
\* altitude is in the snapshot when a later conversion raises.
process_telemetry_field_by_field(d, st, c1, o1, c2, o2) ==
    LET n == Normalize(d)
        a == ToFloat(d.altitude)
    IN
    IF n.exc # "none"
    THEN IF a.exc = "none"
         THEN Raised([st EXCEPT !.last_telemetry.altitude = a.val], "float", n.exc)
         ELSE Raised(st, "float", n.exc)
    ELSE accept_sample(n, st, c1, o1, c2, o2)

\* process_telemetry(data) on the fields st: all three conversions come before
\* the first assignment.
process_telemetry(d, st, c1, o1, c2, o2) ==
    LET n == Normalize(d) IN
    IF n.exc # "none" THEN Raised(st, "float", n.exc)
    ELSE accept_sample(n, st, c1, o1, c2, o2)

\* One pass through the body of the while loop of run() after recvfrom has
\* returned datagram d: decode, json.loads, process_telemetry, and the except
\* clauses.  `next` is where the main thread goes: back to the loop test, or
\* into time.sleep(1).
loop_body(d, st, c1, o1, c2, o2) ==
    CASE d.kind = "badutf8" ->
           [res |-> Raised(st, "decode", "UnicodeDecodeError"), next |-> "sleep"]
      [] d.kind = "badjson" ->
           [res |-> Raised(st, "loads", "JSONDecodeError"), next |-> "loop"]
      [] d.kind = "nonobject" ->
           [res |-> Raised(st, "get", "AttributeError"), next |-> "sleep"]
      [] d.kind = "object" ->
           LET r == process_telemetry(d, st, c1, o1, c2, o2) IN
           [res |-> r,
            next |-> IF r.exc \in {"none", "ValueError", "KeyError"} THEN "loop" ELSE "sleep"]

-----------------------------------------------------------------------------
(* Initial state: MAVLinkDaemon.__init__, handlers installed, run() not yet called *)

NoError == [at |-> "none", exc |-> "none"]

Init ==
    /\ pc = "main"
    /\ running = FALSE
    /\ mqtt_client = "None"
    /\ connected = FALSE
    /\ mavlink_socket = "None"
    /\ ws_server = "off"
    /\ data = NoData
    /\ nrecv = 0
    /\ now = 0
    /\ last_telemetry = InitialTelemetry
    /\ alert_sent = FALSE
    /\ mqtt_out = << >>
    /\ err = NoError
    /\ wsQueue = << >>
    /\ ws_clients = {}
    /\ conn = [s \in Subscribers |-> "new"]
    /\ sends = {}
    /\ exit_status = "alive"

Alive == exit_status = "alive"

-----------------------------------------------------------------------------
(* Main thread: run() *)

\* run(), line 166
run_begin ==
    /\ pc = "main"
    /\ running' = TRUE
    /\ pc' = "setup_mqtt"
    /\ UNCHANGED << mqtt_client, connected, mavlink_socket, ws_server, data, nrecv, now,
                    last_telemetry, alert_sent, mqtt_out, err, wsQueue, ws_clients,
                    conn, sends, exit_status >>

\* What setup_mqtt leaves in self.mqtt_client and returns: the constructor
\* raises, connect (or loop_start) raises, or the network loop is started.
setup_mqtt(outcome) ==
    CASE outcome = "ctor_raises"    -> [client |-> "None", ok |-> FALSE]
      [] outcome = "connect_raises" -> [client |-> "created", ok |-> FALSE]
      [] outcome = "ok"             -> [client |-> "started", ok |-> TRUE]

\* What setup_mavlink_receiver leaves in self.mavlink_socket and returns.
setup_mavlink_receiver(outcome) ==
    CASE outcome = "socket_raises" -> [sock |-> "None", ok |-> FALSE]
      [] outcome = "bind_raises"   -> [sock |-> "unbound", ok |-> FALSE]
      [] outcome = "ok"            -> [sock |-> "bound", ok |-> TRUE]

\* Where run() goes after a setup call returned ok: on, or `return`.
AfterSetup(ok, on) == IF ok THEN on ELSE "returned"

\* run(), lines 169-171
run_setup_mqtt ==
    /\ pc = "setup_mqtt"
    /\ \E outcome \in {"ctor_raises", "connect_raises", "ok"} :
         LET r == setup_mqtt(outcome) IN
         /\ mqtt_client' = r.client
         /\ pc' = AfterSetup(r.ok, "setup_receiver")
    /\ UNCHANGED << running, connected, mavlink_socket, ws_server, data, nrecv, now,
                    last_telemetry, alert_sent, mqtt_out, err, wsQueue, ws_clients,
                    conn, sends, exit_status >>

\* run(), lines 172-174
run_setup_receiver ==
    /\ pc = "setup_receiver"
    /\ \E outcome \in {"socket_raises", "bind_raises", "ok"} :
         LET r == setup_mavlink_receiver(outcome) IN
         /\ mavlink_socket' = r.sock
         /\ pc' = AfterSetup(r.ok, "start_ws")
    /\ UNCHANGED << running, mqtt_client, connected, ws_server, data, nrecv, now,
                    last_telemetry, alert_sent, mqtt_out, err, wsQueue, ws_clients,
                    conn, sends, exit_status >>

\* run(), line 177: the thread is started, or Thread.start raises and the
\* exception leaves run().
run_start_ws ==
    /\ pc = "start_ws"
    /\ \/ ws_server' = "starting" /\ pc' = "loop"
       \/ ws_server' = ws_server /\ pc' = "crashed"
    /\ UNCHANGED << running, mqtt_client, connected, mavlink_socket, data, nrecv, now,
                    last_telemetry, alert_sent, mqtt_out, err, wsQueue, ws_clients,
                    conn, sends, exit_status >>

\* A loop test that does not read the flag.
LoopTest_ignores_flag(r) == "recv"

\* Where `while self.running` goes.
LoopTest(r) == IF r THEN "recv" ELSE "shutdown"

\* A loop that waits, before its next iteration, for the broadcasts it has
\* scheduled to complete.
run_loop_test_after_broadcasts ==
    /\ pc = "loop"
    /\ wsQueue = << >>
    /\ \A t \in sends : t.st # "pending"
    /\ pc' = LoopTest(running)
    /\ err' = NoError
    /\ UNCHANGED << running, mqtt_client, connected, mavlink_socket, ws_server, data,
                    nrecv, now, last_telemetry, alert_sent, mqtt_out, wsQueue,
                    ws_clients, conn, sends, exit_status >>

\* run(), line 181
run_loop_test ==
    /\ pc = "loop"
    /\ pc' = LoopTest(running)
    /\ err' = NoError
    /\ UNCHANGED << running, mqtt_client, connected, mavlink_socket, ws_server, data,
                    nrecv, now, last_telemetry, alert_sent, mqtt_out, wsQueue,
                    ws_clients, conn, sends, exit_status >>

\* A loop that a socket error ends.
AfterRecvError_fatal(exc) == IF exc = "timeout" THEN "loop" ELSE "crashed"

\* Where the except clauses of the loop send the main thread for an exception
\* raised by recvfrom.
AfterRecvError(exc) == IF exc = "timeout" THEN "loop" ELSE "sleep"

\* run(), line 183: recvfrom raises socket.timeout or another OSError
run_recv_raises ==
    /\ pc = "recv"
    /\ \E exc \in {"timeout", "OSError"} :
         /\ pc' = AfterRecvError(exc)
         /\ err' = [at |-> "recvfrom", exc |-> exc]
    /\ UNCHANGED << running, mqtt_client, connected, mavlink_socket, ws_server, data,
                    nrecv, now, last_telemetry, alert_sent, mqtt_out, wsQueue,
                    ws_clients, conn, sends, exit_status >>

\* run(), line 183: recvfrom returns a datagram
run_recv ==
    /\ pc = "recv"
    /\ nrecv < MaxDatagrams
    /\ \E d \in Datagrams : data' = d
    /\ nrecv' = nrecv + 1
    /\ pc' = "decode"
    /\ UNCHANGED << running, mqtt_client, connected, mavlink_socket, ws_server, now,
                    last_telemetry, alert_sent, mqtt_out, err, wsQueue, ws_clients,
                    conn, sends, exit_status >>

\* run(), lines 184-192.  Between the two is_connected() calls of one sample
\* the network thread may have changed the connection state.
run_process ==
    /\ pc = "decode"
    /\ \E o1, o2 \in PublishOutcomes, c2 \in BOOLEAN :
         LET b == loop_body(data, Fields, connected, o1, c2, o2) IN
         /\ last_telemetry' = b.res.last_telemetry
         /\ alert_sent' = b.res.alert_sent
         /\ mqtt_out' = b.res.mqtt_out
         /\ wsQueue' = b.res.wsQueue
         /\ now' = b.res.now
         /\ err' = [at |-> b.res.at, exc |-> b.res.exc]
         /\ connected' = c2
         /\ pc' = b.next
    /\ data' = NoData
    /\ UNCHANGED << running, mqtt_client, mavlink_socket, ws_server, nrecv, ws_clients,
                    conn, sends, exit_status >>

\* run(), line 192: time.sleep(1) returns
run_sleep ==
    /\ pc = "sleep"
    /\ pc' = "loop"
    /\ UNCHANGED << running, mqtt_client, connected, mavlink_socket, ws_server, data,
                    nrecv, now, last_telemetry, alert_sent, mqtt_out, err, wsQueue,
                    ws_clients, conn, sends, exit_status >>

-----------------------------------------------------------------------------
(* Main thread: shutdown() and process exit *)

\* shutdown(), lines 200-201
CloseSocket(sock) == IF sock = "None" THEN "None" ELSE "closed"

\* shutdown(), lines 202-204
StopClient(client) == IF client = "None" THEN "None" ELSE "stopped"

\* What shutdown() does to the subscriber connections: nothing.
ShutdownSubscribers(c) == c

\* shutdown(), lines 198-201
shutdown_socket ==
    /\ pc = "shutdown"
    /\ running' = FALSE
    /\ mavlink_socket' = CloseSocket(mavlink_socket)
    /\ pc' = "stop_mqtt"
    /\ UNCHANGED << mqtt_client, connected, ws_server, data, nrecv, now,
                    last_telemetry, alert_sent, mqtt_out, err, wsQueue, ws_clients,
                    conn, sends, exit_status >>

\* shutdown(), lines 202-205, and the return of run()
shutdown_mqtt ==
    /\ pc = "stop_mqtt"
    /\ mqtt_client' = StopClient(mqtt_client)
    /\ connected' = FALSE
    /\ conn' = ShutdownSubscribers(conn)
    /\ pc' = "returned"
    /\ UNCHANGED << running, mavlink_socket, ws_server, data, nrecv, now,
                    last_telemetry, alert_sent, mqtt_out, err, wsQueue, ws_clients,
                    sends, exit_status >>

\* The exit status __main__ ends with: run() returned, or raised.
ExitStatus(p) == IF p = "crashed" THEN "1" ELSE "0"

\* __main__, lines 215-219
main_exit ==
    /\ pc \in {"returned", "crashed"}
    /\ exit_status' = ExitStatus(pc)
    /\ pc' = "exited"
    /\ UNCHANGED << running, mqtt_client, connected, mavlink_socket, ws_server, data,
                    nrecv, now, last_telemetry, alert_sent, mqtt_out, err, wsQueue,
                    ws_clients, conn, sends >>

\* signal_handler, run by the interpreter in the main thread between two
\* bytecodes (or inside a blocking call, which is then resumed).
signal_handler ==
    /\ Alive
    /\ running' = FALSE
    /\ UNCHANGED << pc, mqtt_client, connected, mavlink_socket, ws_server, data, nrecv,
                    now, last_telemetry, alert_sent, mqtt_out, err, wsQueue,
                    ws_clients, conn, sends, exit_status >>

-----------------------------------------------------------------------------
(* paho network thread *)

\* _on_mqtt_connect / _on_mqtt_disconnect: the connection comes up or drops.
mqtt_network ==
    /\ Alive
    /\ mqtt_client = "started"
    /\ connected' = ~connected
    /\ UNCHANGED << pc, running, mqtt_client, mavlink_socket, ws_server, data, nrecv,
                    now, last_telemetry, alert_sent, mqtt_out, err, wsQueue,
                    ws_clients, conn, sends, exit_status >>

-----------------------------------------------------------------------------
(* Event loop thread: websocket_server, ws_handler, broadcast_ws *)

\* websocket_server: websockets.serve succeeds, or raises and the thread ends.
ws_serve ==
    /\ Alive
    /\ ws_server = "starting"
    /\ ws_server' \in {"serving", "failed"}
    /\ UNCHANGED << pc, running, mqtt_client, connected, mavlink_socket, data, nrecv,
                    now, last_telemetry, alert_sent, mqtt_out, err, wsQueue,
                    ws_clients, conn, sends, exit_status >>

\* ws_handler, line 100: a subscriber connects and is registered
ws_connect(s) ==
    /\ Alive
    /\ ws_server = "serving"
    /\ conn[s] = "new"
    /\ conn' = [conn EXCEPT ![s] = "open"]
    /\ ws_clients' = ws_clients \cup {s}
    /\ UNCHANGED << pc, running, mqtt_client, connected, mavlink_socket, ws_server, data,
                    nrecv, now, last_telemetry, alert_sent, mqtt_out, err, wsQueue,
                    sends, exit_status >>

\* The peer closes the connection, or it breaks.
ws_close(s) ==
    /\ Alive
    /\ conn[s] = "open"
    /\ conn' = [conn EXCEPT ![s] = "closed"]
    /\ UNCHANGED << pc, running, mqtt_client, connected, mavlink_socket, ws_server, data,
                    nrecv, now, last_telemetry, alert_sent, mqtt_out, err, wsQueue,
                    ws_clients, sends, exit_status >>

\* ws_handler, lines 102-104: wait_closed returns and the handler deregisters
ws_handler_exit(s) ==
    /\ Alive
    /\ conn[s] = "closed"
    /\ s \in ws_clients
    /\ ws_clients' = ws_clients \ {s}
    /\ UNCHANGED << pc, running, mqtt_client, connected, mavlink_socket, ws_server, data,
                    nrecv, now, last_telemetry, alert_sent, mqtt_out, err, wsQueue,
                    conn, sends, exit_status >>

\* A broadcast that serializes a dictionary the main thread updates in place:
\* the battery voltage it sends is the one of the current snapshot.
broadcast_ws_shared_dict(telemetry, clients) ==
    {[client |-> c,
      message |-> [telemetry EXCEPT !.battery_voltage = last_telemetry.battery_voltage],
      st |-> "pending"] : c \in clients}

\* broadcast_ws up to its await: the send tasks asyncio.gather creates for
\* telemetry, one per client registered at that moment.
broadcast_ws(telemetry, clients) ==
    {[client |-> c, message |-> telemetry, st |-> "pending"] : c \in clients}

\* The event loop starts the oldest scheduled broadcast_ws coroutine.
ws_broadcast ==
    /\ Alive
    /\ ws_server = "serving"
    /\ wsQueue # << >>
    /\ sends' = sends \cup broadcast_ws(Head(wsQueue), ws_clients)
    /\ wsQueue' = Tail(wsQueue)
    /\ UNCHANGED << pc, running, mqtt_client, connected, mavlink_socket, ws_server, data,
                    nrecv, now, last_telemetry, alert_sent, mqtt_out, err, ws_clients,
                    conn, exit_status >>

\* A broadcast that the first failed send aborts: the sends of the same
\* message that have not completed are dropped.
SendEnds_abort(tasks, t, st) ==
    IF st = "failed"
    THEN {u \in tasks : ~(u.message = t.message /\ u.st = "pending")}
            \cup {[t EXCEPT !.st = st]}
    ELSE (tasks \ {t}) \cup {[t EXCEPT !.st = st]}

\* The send tasks after task t has ended with status st.  gather is called
\* without return_exceptions: the first exception is raised in broadcast_ws,
\* and the other tasks of the gather are left running.
SendEnds(tasks, t, st) == (tasks \ {t}) \cup {[t EXCEPT !.st = st]}

\* client.send(message) of task t completes, or raises ConnectionClosed
ws_send(t) ==
    /\ Alive
    /\ ws_server = "serving"
    /\ t.st = "pending"
    /\ \/ /\ conn[t.client] = "open"
          /\ sends' = SendEnds(sends, t, "sent")
          /\ conn' = conn
       \/ /\ sends' = SendEnds(sends, t, "failed")
          /\ conn' = [conn EXCEPT ![t.client] = "closed"]
    /\ UNCHANGED << pc, running, mqtt_client, connected, mavlink_socket, ws_server, data,
                    nrecv, now, last_telemetry, alert_sent, mqtt_out, err, wsQueue,
                    ws_clients, exit_status >>

-----------------------------------------------------------------------------

NextMain ==
    \/ run_begin
    \/ run_setup_mqtt
    \/ run_setup_receiver
    \/ run_start_ws
    \/ run_loop_test
    \/ run_recv_raises
    \/ run_recv
    \/ run_process
    \/ run_sleep
    \/ shutdown_socket
    \/ shutdown_mqtt
    \/ main_exit
    \/ signal_handler
    \/ mqtt_network

NextLoop ==
    \/ ws_serve
    \/ \E s \in Subscribers : ws_connect(s)
    \/ \E s \in Subscribers : ws_close(s)
    \/ \E s \in Subscribers : ws_handler_exit(s)
    \/ ws_broadcast
    \/ \E t \in sends : ws_send(t)

Next == NextMain \/ NextLoop

\* The whole daemon: the three threads, interleaved.
Spec == Init /\ [][Next]_vars

\* The main thread, the signal handler and the broker connection, with the
\* event loop thread not getting to run: nothing the main thread does reads a
\* variable the event loop writes.
SpecMain == Init /\ [][NextMain]_vars

-----------------------------------------------------------------------------
(* The event loop thread on its own *)

\* The reports a steady producer sends, in order: the battery goes low,
\* recovers, and the cycle repeats with the other well-formed shapes.
FeedCycle ==
    << Obj(Num(100), Num(15), Num(205)), Obj(Num(100), Num(15), Num(215)),
       Obj(Absent, NumStr(15), Absent), Obj(Num(100), Num(15), Num(210)),
       Obj(Num(100), Num(15), JsonNaN) >>

Feed(n) == [i \in 1..n |-> FeedCycle[((i - 1) % Len(FeedCycle)) + 1]]

\* Whether is_connected() answers True while the i-th datagram is processed.
\* connect() returns before the broker has acknowledged the connection, so the
\* first datagram finds the client not yet connected; the later ones find it
\* connected.
BrokerUp(i) == i > 1

\* The fields after the loop of run() has received and processed the
\* datagrams of feed, one per iteration, the i-th being the first of feed,
\* with publish returning normally.
RECURSIVE RunLoop(_, _, _)
RunLoop(feed, st, i) ==
    IF feed = << >> THEN st
    ELSE RunLoop(Tail(feed),
                 FieldsOf(loop_body(Head(feed), st, BrokerUp(i), "ok",
                                    BrokerUp(i), "ok").res),
                 i + 1)

InitialFields ==
    [last_telemetry |-> InitialTelemetry, alert_sent |-> FALSE,
     mqtt_out |-> << >>, wsQueue |-> << >>, now |-> 0]

\* The main thread is back in recvfrom after MaxDatagrams datagrams; the
\* event loop thread has been started and has not run yet.
InitLoop ==
    LET st == RunLoop(Feed(MaxDatagrams), InitialFields, 1) IN
    /\ pc = "recv"
    /\ running = TRUE
    /\ mqtt_client = "started"
    /\ connected = TRUE
    /\ mavlink_socket = "bound"
    /\ ws_server = "starting"
    /\ data = NoData
    /\ nrecv = MaxDatagrams
    /\ now = st.now
    /\ last_telemetry = st.last_telemetry
    /\ alert_sent = st.alert_sent
    /\ mqtt_out = st.mqtt_out
    /\ err = NoError
    /\ wsQueue = st.wsQueue
    /\ ws_clients = {}
    /\ conn = [s \in Subscribers |-> "new"]
    /\ sends = {}
    /\ exit_status = "alive"

\* The event loop thread from there on, while the main thread waits in
\* recvfrom.  The event loop reads of the main thread's fields only the head
\* of the queue of scheduled broadcasts, so every order of its steps in Spec
\* is an order of its steps here.
SpecLoop == InitLoop /\ [][NextLoop]_vars

\* Shutdown with subscribers present: the main thread has processed its
\* datagrams, the event loop thread runs, and a stop request may arrive.  No
\* further datagram arrives.
NextStop ==
    \/ NextLoop
    \/ signal_handler
    \/ run_recv_raises
    \/ run_sleep
    \/ run_loop_test
    \/ shutdown_socket
    \/ shutdown_mqtt
    \/ main_exit

SpecStop == InitLoop /\ [][NextStop]_vars

-----------------------------------------------------------------------------
(* Vocabulary of the properties *)

Alerts(out) == SelectSeq(out, LAMBDA m : m.topic = MQTT_TOPIC_ALERT)
Telemetry(out) == SelectSeq(out, LAMBDA m : m.topic = MQTT_TOPIC_TELEMETRY)
NumAlerts(out) == Len(Alerts(out))

Crit == F(BATTERY_CRITICAL_VOLTAGE)
Recovered == F(BATTERY_CRITICAL_VOLTAGE + RECOVERY_MARGIN)

\* This step is the rest of a loop iteration after recvfrom returned.
ProcessStep == pc = "decode" /\ pc' # "decode"

\* This step is the loop iteration that accepts a sample: the datagram
\* normalized and the snapshot was replaced.
AcceptStep == pc = "decode" /\ now' = now + 1
\* The battery voltage of the sample this step accepts.
StepVolts == last_telemetry'.battery_voltage

\* The datagram is malformed: not valid UTF-8 or JSON, not an object, or an
\* object with a present field that float() rejects.
Malformed(d) ==
    \/ d.kind # "object"
    \/ \E raw \in {d.altitude, d.airspeed, d.battery_voltage} : raw.t \in {"badstr", "null"}

LoopPcs == {"loop", "recv", "decode", "sleep"}

-----------------------------------------------------------------------------
(* C1 *)

\* C1: starting from Normal with the broker connected throughout, a run of
\* consecutive accepted samples below 21.0 V publishes exactly one alert, for
\* the first sample of the run: an accepted sample below 21.0 V that is
\* processed to its end with the broker connected publishes one alert when the
\* latch was clear and none when it was already set.
C1_NoDuplicateAlerts ==
    [][ (AcceptStep /\ err'.exc = "none" /\ connected /\ connected'
            /\ FLt(StepVolts, Crit))
        => NumAlerts(mqtt_out') = NumAlerts(mqtt_out) + (IF alert_sent THEN 0 ELSE 1) ]_vars

-----------------------------------------------------------------------------
(* C2 *)

\* C2: once latched, no further alert is published for any accepted sample
\* that stays below 21.5 V (hovering in the band or dipping below 21.0 V
\* again), and the latch stays set.
C2_Hysteresis ==
    [][ (AcceptStep /\ alert_sent /\ ~FGe(StepVolts, Recovered))
        => (NumAlerts(mqtt_out') = NumAlerts(mqtt_out) /\ alert_sent') ]_vars

-----------------------------------------------------------------------------
(* C3 *)

\* C3: whenever a step changes the latch from False to True, an alert is
\* published on mavlink/alert in that same step, whatever the connection state.
C3_TransitionAlerted ==
    [][ (~alert_sent /\ alert_sent')
        => NumAlerts(mqtt_out') = NumAlerts(mqtt_out) + 1 ]_vars

-----------------------------------------------------------------------------
(* C4 *)

\* C4: an accepted sample in [21.0, 21.5) leaves Critical Critical; an accepted
\* sample at or above 21.5 turns Critical into Normal and publishes no alert;
\* an accepted sample at or above 21.0 leaves Normal Normal.
C4_RecoveryMargin ==
    [][ AcceptStep =>
          /\ (alert_sent /\ FGe(StepVolts, Crit) /\ FLt(StepVolts, Recovered)) => alert_sent'
          /\ (alert_sent /\ FGe(StepVolts, Recovered))
                => (~alert_sent' /\ NumAlerts(mqtt_out') = NumAlerts(mqtt_out))
          /\ (~alert_sent /\ FGe(StepVolts, Crit)) => ~alert_sent' ]_vars

\* The same three rules for the samples check_failsafe is reached for.
C4_RecoveryMarginWhenEvaluated ==
    [][ (AcceptStep /\ err'.at # "publish_telemetry") =>
          /\ (alert_sent /\ FGe(StepVolts, Crit) /\ FLt(StepVolts, Recovered)) => alert_sent'
          /\ (alert_sent /\ FGe(StepVolts, Recovered))
                => (~alert_sent' /\ NumAlerts(mqtt_out') = NumAlerts(mqtt_out))
          /\ (~alert_sent /\ FGe(StepVolts, Crit)) => ~alert_sent' ]_vars

-----------------------------------------------------------------------------
(* C5 *)

\* C5: processing a malformed datagram leaves the snapshot and the latch
\* unchanged, publishes nothing, schedules no broadcast, and leaves the main
\* thread in the loop.
C5_MalformedAltersNothing ==
    [][ (ProcessStep /\ Malformed(data))
        => /\ last_telemetry' = last_telemetry
           /\ alert_sent' = alert_sent
           /\ mqtt_out' = mqtt_out
           /\ wsQueue' = wsQueue
           /\ now' = now
           /\ pc' \in {"loop", "sleep"} ]_vars

\* A malformed datagram has been processed after a sample below the threshold
\* had been accepted and alerted.
C5_Witness ==
    /\ pc \in {"loop", "sleep"}
    /\ err.at \in {"decode", "loads", "get", "float"}
    /\ last_telemetry.timestamp = 1
    /\ alert_sent
    /\ Len(mqtt_out) = 2
    /\ Len(wsQueue) = 1

-----------------------------------------------------------------------------
(* C6 *)

Range(seq) == {seq[i] : i \in 1..Len(seq)}

PublishedWhenProcessed(sample) == BrokerUp(sample.timestamp)

-----------------------------------------------------------------------------
(* C7 *)

\* The latch the failsafe rule gives for voltage v in state latched.
RuleLatch(v, latched) ==
    IF FLt(v, Crit) THEN TRUE
    ELSE IF latched /\ FGe(v, Recovered) THEN FALSE ELSE latched

\* C7: when the telemetry publish of an accepted sample raises, the failsafe is
\* still evaluated and the latch updated for that sample; when the alert publish
\* raises, the sample is still scheduled for broadcast.
C7_DeliveryIndependent ==
    [][ AcceptStep =>
          /\ err'.at = "publish_telemetry"
                => alert_sent' = RuleLatch(StepVolts, alert_sent)
          /\ err'.at = "check_failsafe"
                => wsQueue' = Append(wsQueue, last_telemetry') ]_vars

-----------------------------------------------------------------------------
(* C8 *)

\* C8: the socket is closed only after the loop has been left, the broker
\* client is stopped only after the socket has been closed, and when shutdown
\* has returned the broker client is stopped and no subscriber connection is
\* still open.
C8_CancellationOrder ==
    /\ mavlink_socket = "closed" => pc \notin LoopPcs
    /\ mqtt_client = "stopped" => mavlink_socket = "closed"
    /\ pc = "returned"
         => (mqtt_client = "stopped" /\ \A s \in Subscribers : conn[s] # "open")

\* The order of the first three steps alone.
C8_OrderOfSocketAndBroker ==
    /\ mavlink_socket = "closed" => pc \notin LoopPcs
    /\ mqtt_client = "stopped" => mavlink_socket = "closed"
    /\ pc = "returned" => mqtt_client = "stopped"

-----------------------------------------------------------------------------
(* C9 *)

\* run() has ended after setup_mqtt or setup_mavlink_receiver returned False.
SetupFailed ==
    /\ pc \in {"returned", "exited"}
    /\ mqtt_client \in {"None", "created"} \/ mavlink_socket \in {"None", "unbound"}

\* C9: after a failed setup the loop was never entered (no datagram received,
\* the subscriber server never started), and the process does not end with the
\* exit status of a normal completion.
C9_SetupFailureSurfaced ==
    SetupFailed => (nrecv = 0 /\ ws_server = "off" /\ exit_status # "0")

\* The first half alone: after a failed setup the loop was never entered.
C9_NoLoopAfterSetupFailure ==
    SetupFailed => (nrecv = 0 /\ now = 0 /\ ws_server = "off")

-----------------------------------------------------------------------------
(* C10 *)

\* C10: the main thread leaves the loop only through the loop test, with
\* running False; and inside the loop only the signal handler clears running.
C10_LoopNeverTerminatedByError ==
    [][ /\ (pc \in LoopPcs /\ pc' \notin LoopPcs)
            => (pc = "loop" /\ ~running /\ pc' = "shutdown")
        /\ (pc \in LoopPcs /\ running /\ ~running') => pc' = pc ]_vars

\* The loop is still running after a datagram has been accepted and, in a
\* later iteration, delivering a sample raised.
C10_Witness ==
    /\ pc = "sleep"
    /\ running
    /\ err.at \in {"publish_telemetry", "check_failsafe"}
    /\ now = MaxDatagrams

-----------------------------------------------------------------------------
(* C11 *)

\* A send to subscriber c has failed.
PushFailed(c) == \E t \in sends : t.client = c /\ t.st = "failed"

\* The send tasks this step creates.
NewSends == {u \in sends' \ sends : u.st = "pending"}

\* C11: once a send to a subscriber has failed, no later broadcast creates a
\* send to that subscriber.
C11_FailedSubscriberNotRetried ==
    [][ \A c \in Subscribers :
          PushFailed(c) => ~(\E u \in NewSends : u.client = c) ]_vars

\* What the code does provide: only ws_handler takes a subscriber out of the
\* registry, and only once its connection is closed.
C11_DeregisteredByHandlerOnly ==
    [][ \A c \in ws_clients \ ws_clients' : conn[c] = "closed" /\ sends' = sends ]_vars

-----------------------------------------------------------------------------
(* C12 *)

\* The send tasks whose client.send call returns or raises in this step.
EndingSends == {t \in sends : t.st = "pending" /\ t \notin sends'}

\* C12: a broadcast creates its sends from the registry as it is at that
\* moment, and client.send is never run for a subscriber that has been
\* removed from the registry.
C12_RegistrySafety ==
    [][ /\ \A u \in NewSends : u.client \in ws_clients
        /\ \A t \in EndingSends : t.client \in ws_clients ]_vars

\* The first half alone: the sends of a broadcast are exactly the registry at
\* the moment the broadcast runs.
C12_BroadcastReadsRegistryOnce ==
    [][ NewSends # {} => {u.client : u \in NewSends} = ws_clients ]_vars

-----------------------------------------------------------------------------
(* C13 *)

\* C13: the step that accepts a sample issues exactly one publish on
\* mavlink/telemetry, carrying that sample, and schedules exactly one
\* broadcast of it, whatever the latch is and whether or not an alert is
\* published.
C13_AcceptedSampleFannedOut ==
    [][ AcceptStep
        => /\ Telemetry(mqtt_out')
                = Append(Telemetry(mqtt_out), TelemetryMsg(last_telemetry'))
           /\ wsQueue' = Append(wsQueue, last_telemetry') ]_vars

\* The same for the samples that find the broker client connected and whose
\* publish calls return.
C13_FannedOutWhenDelivered ==
    [][ (AcceptStep /\ connected /\ err'.exc = "none")
        => /\ Telemetry(mqtt_out')
                = Append(Telemetry(mqtt_out), TelemetryMsg(last_telemetry'))
           /\ wsQueue' = Append(wsQueue, last_telemetry') ]_vars

-----------------------------------------------------------------------------
(* C15 *)

\* The latch is set and no alert was ever published: the alert of the
\* transition into Critical was dropped, the broker client not being
\* connected at that sample.
AlertDropped == alert_sent /\ Alerts(mqtt_out) = << >>

\* C15: after the alert of a transition was dropped, no alert is published
\* for a later sample that leaves the latch set.
C15_DroppedAlertNotRegenerated ==
    [][ (AlertDropped /\ alert_sent') => Alerts(mqtt_out') = << >> ]_vars

-----------------------------------------------------------------------------
(* C20 *)

\* C20: when run() has returned, running is False, the broker client's
\* network loop is not left started, and the socket is not left open.
C20_NothingStaysAcquired ==
    pc = "returned"
        => /\ ~running
           /\ mqtt_client # "started"
           /\ mavlink_socket \notin {"unbound", "bound"}

\* The return through shutdown() alone: the loop was entered and left.
C20_ReleasedAfterShutdown ==
    (pc = "returned" /\ ws_server # "off")
        => /\ ~running
           /\ mqtt_client = "stopped"
           /\ mavlink_socket = "closed"

-----------------------------------------------------------------------------
(* C16 *)

\* The value a field of an accepted datagram stands for: the number given, as
\* a number or as a numeric string, and 0.0 for a missing field.
FieldValue(raw) ==
    CASE raw.t = "absent" -> F(0)
      [] raw.t = "nan"    -> NaN
      [] OTHER            -> F(raw.v)

\* The three values of snapshot s are those of datagram d.
SnapshotOf(s, d) ==
    /\ s.altitude = FieldValue(d.altitude)
    /\ s.airspeed = FieldValue(d.airspeed)
    /\ s.battery_voltage = FieldValue(d.battery_voltage)

\* C16: the snapshot is all zero until a datagram is accepted; the step that
\* processes a datagram that normalizes puts that datagram's values in the
\* snapshot, whatever happens to its delivery; every other step (a malformed
\* datagram, a timeout, a socket error, the sleep, a signal) leaves the
\* snapshot as it is.
C16_SnapshotIsLastAccepted ==
    /\ [](now = 0 => last_telemetry = InitialTelemetry)
    /\ [][ IF ProcessStep /\ ~Malformed(data)
           THEN SnapshotOf(last_telemetry', data)
           ELSE last_telemetry' = last_telemetry ]_vars

\* Two datagrams have been accepted, the second with missing fields, and the
\* telemetry publish of the second raised.
C16_Witness ==
    /\ now = 2
    /\ err.at = "publish_telemetry"
    /\ last_telemetry.timestamp = 2
    /\ last_telemetry.altitude = F(0)
    /\ last_telemetry.airspeed = F(15)
    /\ last_telemetry.battery_voltage = F(0)

-----------------------------------------------------------------------------
(* C14 *)

\* The battery voltages of the scenario, in tenths of a volt.
Scenario == << 252, 220, 205, 200, 216 >>

\* The datagram carrying the k-th voltage of the scenario.
ScenarioDatagram(k) == Obj(Num(100), Num(15), Num(Scenario[k]))

\* run() has set up the broker client, connected, and the socket, started the
\* event loop thread and reached the loop; nothing has been received yet.
InitScenario ==
    /\ pc = "loop"
    /\ running = TRUE
    /\ mqtt_client = "started"
    /\ connected = TRUE
    /\ mavlink_socket = "bound"
    /\ ws_server = "starting"
    /\ data = NoData
    /\ nrecv = 0
    /\ now = 0
    /\ last_telemetry = InitialTelemetry
    /\ alert_sent = FALSE
    /\ mqtt_out = << >>
    /\ err = NoError
    /\ wsQueue = << >>
    /\ ws_clients = {}
    /\ conn = [s \in Subscribers |-> "new"]
    /\ sends = {}
    /\ exit_status = "alive"

\* run(), line 183: recvfrom returns the next datagram of the scenario, or a
\* malformed datagram that reached the port in between.
scenario_recv ==
    /\ pc = "recv"
    /\ now < Len(Scenario)
    /\ data' \in {ScenarioDatagram(now + 1)} \cup MalformedDatagrams
    /\ pc' = "decode"
    /\ UNCHANGED << running, mqtt_client, connected, mavlink_socket, ws_server, nrecv,
                    now, last_telemetry, alert_sent, mqtt_out, err, wsQueue,
                    ws_clients, conn, sends, exit_status >>

\* run(), lines 184-192, with the broker client connected and every publish
\* returning.
run_process_delivered ==
    /\ pc = "decode"
    /\ connected
    /\ LET b == loop_body(data, Fields, TRUE, "ok", TRUE, "ok") IN
         /\ last_telemetry' = b.res.last_telemetry
         /\ alert_sent' = b.res.alert_sent
         /\ mqtt_out' = b.res.mqtt_out
         /\ wsQueue' = b.res.wsQueue
         /\ now' = b.res.now
         /\ err' = [at |-> b.res.at, exc |-> b.res.exc]
         /\ pc' = b.next
    /\ data' = NoData
    /\ UNCHANGED << running, mqtt_client, connected, mavlink_socket, ws_server, nrecv,
                    ws_clients, conn, sends, exit_status >>

NextScenario ==
    \/ run_loop_test
    \/ scenario_recv
    \/ run_recv_raises
    \/ run_process_delivered
    \/ run_sleep

\* The main thread fed the scenario, the broker connection staying up.
SpecScenario == InitScenario /\ [][NextScenario]_vars

\* The alarm state the scenario expects after its k-th sample: Normal,
\* Normal, Critical, Critical, Normal (TRUE is Critical).
AlarmAfter(k) == IF k = 0 THEN FALSE ELSE << FALSE, FALSE, TRUE, TRUE, FALSE >>[k]

\* The alerts the scenario expects to have been published after its k-th
\* sample: none before the third, and from then on the one of the third.
AlertsAfter(k) == IF k < 3 THEN << >> ELSE << AlertMsg(F(Scenario[3]), 3) >>

\* C14: after each sample of the scenario the alarm state is the expected
\* one, and the alerts published so far are none before the 20.5 V sample and
\* exactly the alert of the 20.5 V sample from then on.
C14_EndToEndScenario ==
    /\ alert_sent = AlarmAfter(now)
    /\ Alerts(mqtt_out) = AlertsAfter(now)

\* The alarm states alone.
C14_AlarmSequence == alert_sent = AlarmAfter(now)

-----------------------------------------------------------------------------
(* The main thread and the event loop thread together, on a steady feed *)

\* run(), line 183: recvfrom returns the next datagram of the producer's feed
feed_recv ==
    /\ pc = "recv"
    /\ nrecv < MaxDatagrams
    /\ data' = Feed(MaxDatagrams)[nrecv + 1]
    /\ nrecv' = nrecv + 1
    /\ pc' = "decode"
    /\ UNCHANGED << running, mqtt_client, connected, mavlink_socket, ws_server, now,
                    last_telemetry, alert_sent, mqtt_out, err, wsQueue, ws_clients,
                    conn, sends, exit_status >>

\* The steps of the main thread in the loop, fed by the producer with the
\* broker connection up.
NextFeed ==
    \/ run_loop_test
    \/ feed_recv
    \/ run_process_delivered

\* client.send(message) of task t completes
ws_send_returns(t) ==
    /\ ws_send(t)
    /\ sends' = SendEnds(sends, t, "sent")

\* The main thread with the event loop thread, the subscribers' connections
\* staying up: a send completes, or stays pending.
NextIngest ==
    \/ NextFeed
    \/ ws_serve
    \/ \E s \in Subscribers : ws_connect(s)
    \/ ws_broadcast
    \/ \E t \in sends : ws_send_returns(t)

\* The main thread receives and processes the feed while the event loop
\* thread serves the subscribers and runs the broadcasts.
SpecIngest == InitScenario /\ [][NextIngest]_vars

-----------------------------------------------------------------------------
(* C17 *)

\* The i-th sample accepted from the feed.
AcceptedSample(i) ==
    LET d == Feed(MaxDatagrams)[i] IN
    [altitude |-> FieldValue(d.altitude), airspeed |-> FieldValue(d.airspeed),
     battery_voltage |-> FieldValue(d.battery_voltage), timestamp |-> i]

\* The number of broadcasts the event loop has started.
Broadcasts == now - Len(wsQueue)

\* C17: the broadcasts still scheduled carry, in order, the samples that were
\* current when they were scheduled, and every message sent or being sent to
\* a subscriber is, in all four fields, one accepted sample whose broadcast
\* has started.
C17_NoMixedSample ==
    /\ \A k \in 1..Len(wsQueue) : wsQueue[k] = AcceptedSample(Broadcasts + k)
    /\ \A t \in sends : \E i \in 1..Broadcasts : t.message = AcceptedSample(i)

\* The broadcast of the first sample is running, delivered to one subscriber
\* and not yet to another, after the snapshot has been replaced by the second
\* sample.
C17_Witness ==
    /\ last_telemetry = AcceptedSample(2)
    /\ \E t, u \in sends :
         /\ t.message = AcceptedSample(1) /\ t.st = "sent"
         /\ u.message = AcceptedSample(1) /\ u.st = "pending"

-----------------------------------------------------------------------------
(* C18 *)

-----------------------------------------------------------------------------
(* C19 *)

\* A step of the main thread from the loop on.
MainThread ==
    \/ run_loop_test
    \/ feed_recv
    \/ run_recv_raises
    \/ run_process
    \/ run_sleep
    \/ shutdown_socket
    \/ shutdown_mqtt
    \/ main_exit

NextHalt == MainThread \/ signal_handler

\* The main thread in the loop, fed by the producer, with a stop request
\* arriving at any moment.  The main thread keeps running: recvfrom returns
\* or times out (settimeout(5.0), line 90), time.sleep(1) ends, and every
\* other call returns.
SpecHalt == InitScenario /\ [][NextHalt]_vars /\ WF_vars(MainThread)

\* A stop has been requested while the main thread is in the loop.
StopRequestedInLoop == ~running /\ pc \in LoopPcs

\* shutdown() has run to its end after the loop.
ShutdownCompleted ==
    /\ pc \in {"returned", "exited"}
    /\ ~running
    /\ mavlink_socket = "closed"
    /\ mqtt_client = "stopped"

\* C19: once running is False with the main thread in the loop, the flag
\* stays False, recvfrom is not called again once the call in progress has
\* returned (so at most one further datagram is processed), the loop is left
\* at its next test, and shutdown() is eventually run to its end.
C19_StopEventuallyStops ==
    /\ [][ StopRequestedInLoop
           => /\ ~running'
              /\ pc' = "recv" => pc = "recv"
              /\ pc = "loop" => pc' \in {"loop", "shutdown"} ]_vars
    /\ StopRequestedInLoop ~> ShutdownCompleted

\* shutdown() has completed after a stop request that found the main thread
\* in the loop with datagrams already accepted.
C19_Witness ==
    /\ ShutdownCompleted
    /\ now >= 1
    /\ nrecv = MaxDatagrams

=============================================================================
